---- MODULE Spec2Model ----
(***************************************************************************)
(* Model of ptbcontrib/roles/roles.py: the Role hierarchy (class Role),    *)
(* the process-wide admin root and the Roles registry.                     *)
(*                                                                         *)
(* Role objects are numbered in the order their constructor allocates      *)
(* them.  Exceptions are modelled as outcomes: every call returns, beside  *)
(* the heap it leaves, the name of the exception it raised ("none" when it *)
(* returned normally).                                                     *)
(*                                                                         *)
(* Specifications:                                                         *)
(*   Spec      the child graph: construction, add/remove child, ordering   *)
(*   EvalSpec  members and evaluation of roles on updates                  *)
(*   RegSpec   the Roles registry                                          *)
(*   ConcSpec  Role.__init__ run by concurrent threads, step by step       *)
(***************************************************************************)
EXTENDS Integers, FiniteSets, Sequences, TLC

\* ---------------------------------------------------------------- bounds

\* Number of Role(...) calls the caller makes.
MaxRoles == 3
\* Number of Role(...) calls where the roles are then evaluated on updates.
MaxEvalRoles == 2
\* Number of Role(...) calls where the roles are then compared with equals.
MaxEqRoles == 3
\* Principal ids are 1..MaxId.
MaxId == 1
\* Threads constructing roles concurrently.
MaxThreads == 2
\* The timeout given to ChatAdminsRole (1800 by default), in clock ticks.
Timeout == 2
\* The clock runs from 0 to MaxTime.
MaxTime == 2
\* Number of deepcopy calls.
MaxCopies == 2
\* Roles the threads of the lock-by-lock specification construct.
MaxLockRoles == 2
\* Calls the threads of that specification start.
MaxCalls == 5
\* Roles constructed over the four childless roles the pairing program starts
\* with.
MaxParents == 2
\* Depth of nested calls at which the interpreter raises RecursionError
\* (sys.getrecursionlimit(), scaled down).
MaxDepth == 3

\* Python's None (Role.__admin starts as None; an update may carry no user).
None == 0

\* Objects the three direct Role(...) calls of Roles.__init__ allocate.
RegistryRoles == 3

\* Every object the bounded program can allocate: the caller's roles, the
\* object __init_admin constructs, and the roles of one registry.
Obj == 1..(MaxRoles + RegistryRoles + 1)
Ids == 1..MaxId
Threads == 1..MaxThreads
Names == {"mods", "users"}

VARIABLES
    nRoles,           \* Role objects allocated so far: 1..nRoles
    chat_ids,         \* Role.chat_ids: the members of each role
    child_roles,      \* Role._child_roles
    inverted,         \* Role._inverted
    admin,            \* class attribute Role.__admin (_Role__admin)
    admin_alt,        \* class attribute _Role__admin__admin, set at line 145
    admin_semaphore,  \* value of Role.__admin_semaphore
    roots,            \* objects constructed at line 145, by __init_admin
    admin_lock,       \* thread holding Role.__admin_lock, or None
    role_lock,        \* per role: the thread holding its _Role__lock, or None
    reg_lock,         \* thread holding the registry's _Roles__lock, or None
    started,          \* calls the threads have started so far
    known,            \* roles a caller holds a reference to
    reg,              \* the Roles instance
    last,             \* the last completed call and its outcome
    pre,              \* child sets and registry mapping before the last call
    pc,               \* per thread: position in the call it runs
    cur,              \* per thread: the objects its call works on
    gate,             \* the object whose constructor passed the semaphore
    special,          \* per object: its class and the attributes bot, cache
                      \* and timeout of ChatAdminsRole and ChatCreatorRole
    caches,           \* the cache dicts, named by the object whose __init__
                      \* made them: chat id -> entry
    now               \* time.time()

vars == <<nRoles, chat_ids, child_roles, inverted, admin, admin_alt,
          admin_semaphore, roots, admin_lock, role_lock, reg_lock, started,
          known, reg, last, pre, pc, cur, gate, special, caches, now>>

classVars == <<admin, admin_alt, admin_semaphore, roots>>
lockVars == <<role_lock, reg_lock>>
callVars == <<lockVars, started>>
threadVars == <<admin_lock, pc, cur, gate, callVars>>
dynVars == <<special, caches, now>>

\* ------------------------------------------------------------- the heap

\* The part of the state the methods of Role read and write, as one value.
Heap ==
    [n |-> nRoles, ids |-> chat_ids, kids |-> child_roles, inv |-> inverted,
     admin |-> admin, alt |-> admin_alt, sem |-> admin_semaphore,
     roots |-> roots, sp |-> special, caches |-> caches]

\* The one Bot object handed to the roles that look things up.
Bot == 1

\* An object of class Role: it has no bot, cache or timeout attribute.
PlainRole == [cls |-> "Role", bot |-> None, cache |-> None, timeout |-> None]

\* {}: a cache dict with no entry.  An entry of ChatAdminsRole.cache is the
\* tuple (time, admins), one of ChatCreatorRole.cache the tuple of the one
\* user id it stores.
EmptyDict == [c \in Ids |-> <<>>]

\* Lines 127-133 of Role.__init__: the new object and its fields.
Alloc(h, ids, kids) ==
    [h EXCEPT !.n = h.n + 1,
              !.ids[h.n + 1] = ids,
              !.kids[h.n + 1] = kids,
              !.inv[h.n + 1] = FALSE]

Ret(h, exc) == [h |-> h, exc |-> exc]

\* ------------------------------------------------- hierarchical ordering

RECURSIVE Role_lt(_, _, _)
RECURSIVE Role_le(_, _, _)

\* __lt__ that looks at the direct children only.
Role_lt_direct_only(kids, self, other) ==
    /\ self # other
    /\ self \in kids[other]

\* __lt__: self is not other and any(self <= child for child in other.child_roles)
Role_lt(kids, self, other) ==
    /\ self # other
    /\ \E child \in kids[other] : Role_le(kids, self, child)

\* __le__: self is other or self < other
Role_le(kids, self, other) ==
    \/ self = other
    \/ Role_lt(kids, self, other)

RECURSIVE Role_gt(_, _, _)
RECURSIVE Role_ge(_, _, _)

\* __gt__: self is not other and any(other <= child for child in self.child_roles)
Role_gt(kids, self, other) ==
    /\ self # other
    /\ \E child \in kids[self] : Role_le(kids, other, child)

\* __ge__: self is other or self > other
Role_ge(kids, self, other) ==
    \/ self = other
    \/ Role_gt(kids, self, other)

\* ------------------------------------------------- child-graph mutation

\* `self._child_roles |= child_role` with a Role on the right: set.__ior__
\* and set.__or__ return NotImplemented for an operand that is no set, Role
\* has no __ror__, so the statement raises TypeError and assigns nothing.
\* The statement as set.add would do it: the child is put into the set.
set_ior_role_adds(kids, self, child_role) ==
    Ret([kids EXCEPT ![self] = @ \cup {child_role}], "none")

set_ior_role(kids, self, child_role) == Ret(kids, "TypeError")

\* add_child_role with the two checks dropped and the child inserted.
Role_add_child_role_unchecked(h, self, child_role) ==
    Ret([h EXCEPT !.kids[self] = @ \cup {child_role}], "none")

\* add_child_role that inserts the child before it checks for a cycle.
Role_add_child_role_insert_first(h, self, child_role) ==
    LET h1 == [h EXCEPT !.kids[self] = @ \cup {child_role}]
    IN  IF self = child_role \/ Role_le(h.kids, self, child_role)
        THEN Ret(h1, "ValueError")
        ELSE Ret(h1, "none")

Role_add_child_role(h, self, child_role) ==
    IF self = child_role
    THEN Ret(h, "ValueError")
    ELSE IF Role_le(h.kids, self, child_role)
    THEN Ret(h, "ValueError")
    ELSE LET r == set_ior_role(h.kids, self, child_role)
         IN  Ret([h EXCEPT !.kids = r.h], r.exc)

\* remove_child_role: discard under the role's lock.
Role_remove_child_role(h, self, child_role) ==
    Ret([h EXCEPT !.kids[self] = @ \ {child_role}], "none")

\* ---------------------------------------------------------- construction

RECURSIVE Role_init(_, _, _)
RECURSIVE Role_init_admin(_)

\* __init_admin: under __admin_lock, construct the admin role when __admin
\* is None.  The assignment targets cls.__admin__admin, which Python mangles
\* to _Role__admin__admin: Role.__admin itself is not assigned.
Role_init_admin(h) ==
    IF h.admin = None
    THEN LET r == Role_init(h, {}, {})
         IN  IF r.exc # "none" THEN r
             ELSE Ret([r.h EXCEPT !.alt = h.n + 1,
                                  !.roots = @ \cup {h.n + 1}], "none")
    ELSE Ret(h, "none")

\* Role.__init__(chat_ids, child_roles): the new object is h.n + 1.
Role_init(h, ids, kids) ==
    LET self == h.n + 1
        h1 == Alloc(h, ids, kids)
        r2 == IF h1.sem = 1
              THEN Role_init_admin([h1 EXCEPT !.sem = 0])
              ELSE Ret(h1, "none")
    IN  IF r2.exc # "none" THEN r2
        ELSE IF r2.h.admin # None
        THEN Role_add_child_role(r2.h, r2.h.admin, self)
        ELSE r2

\* _set_custom_admin: self.__admin.remove_child_role(self) under the admin
\* lock, then new_admin.add_child_role(self).  Role.__admin being None, the
\* attribute lookup on it raises AttributeError.
Role_set_custom_admin(h, self, new_admin) ==
    IF h.admin = None
    THEN Ret(h, "AttributeError")
    ELSE LET r == Role_remove_child_role(h, h.admin, self)
         IN  Role_add_child_role(r.h, new_admin, self)

\* ------------------------------------------------------------ evaluation

Updates == [user : Ids \cup {None}, chat : Ids \cup {None}]

\* `target <= child` as filter evaluates it.  With target None, None has no
\* __le__ for a Role, Python tries the reflected child.__ge__(None), which is
\* `child is None or child > None`, and __gt__ returns False for a non-Role.
target_le(kids, target, child) ==
    IF target = None THEN FALSE ELSE Role_le(kids, target, child)

\* any(child.filter(...) for child in C) over a set C iterated in an order
\* the program does not fix (roles hash by id()); S holds, for each child, the
\* outcomes its filter can have.  The first outcome that is not False ends
\* the iteration, an exception included.
any_of(S) ==
    {o \in {"True", "AttributeError"} : \E outs \in S : o \in outs}
        \cup (IF \A outs \in S : "False" \in outs THEN {"False"} ELSE {})

RECURSIVE Role_filter(_, _, _, _)

\* Role.filter with the test of _inverted negated.
Role_filter_inverted_test_negated(h, self, update, target) ==
    IF update.user = None /\ update.chat = None THEN {"False"}
    ELSE IF update.user # None /\ update.user \in h.ids[self] THEN {"True"}
    ELSE IF update.chat # None /\ update.chat \in h.ids[self] THEN {"True"}
    ELSE IF ~h.inv[self]
    THEN any_of({Role_filter(h, c, update, target) : c \in h.kids[self]})
    ELSE {"False"}

\* Role.filter(update, target): the set of outcomes the call can have.
Role_filter(h, self, update, target) ==
    IF update.user = None /\ update.chat = None THEN {"False"}
    ELSE IF update.user # None /\ update.user \in h.ids[self] THEN {"True"}
    ELSE IF update.chat # None /\ update.chat \in h.ids[self] THEN {"True"}
    ELSE IF h.inv[self]
    THEN any_of({Role_filter(h, c, update, target) : c \in h.kids[self]})
    ELSE LET root == IF target # None THEN self ELSE h.admin
         IN  IF root = None
             THEN {"AttributeError"}
             ELSE any_of({Role_filter(h, c, update, target) :
                             c \in {k \in h.kids[root] :
                                        target_le(h.kids, target, k)}})

\* equals that tests self.chat_ids <= other.chat_ids in place of ==.
Role_equals_subset(h, self, other) ==
    /\ h.ids[self] \subseteq h.ids[other]
    /\ Cardinality(h.kids[self]) = Cardinality(h.kids[other])

RECURSIVE Role_equals(_, _, _)

\* Role.equals(other): equal members, as many children, and every child of
\* either has an equal among the children of the other.
Role_equals(h, self, other) ==
    IF h.ids[self] = h.ids[other]
    THEN IF Cardinality(h.kids[self]) = Cardinality(h.kids[other])
         THEN IF Cardinality(h.kids[self]) = 0 THEN TRUE
              ELSE IF \E child_role \in h.kids[self] :
                         ~\E ocr \in h.kids[other] :
                              Role_equals(h, child_role, ocr)
              THEN FALSE
              ELSE IF \E ocr \in h.kids[other] :
                         ~\E cr \in h.kids[self] : Role_equals(h, ocr, cr)
              THEN FALSE
              ELSE TRUE
         ELSE FALSE
    ELSE FALSE

RetObj(h, exc, obj) == [h |-> h, exc |-> exc, obj |-> obj]

RECURSIVE Role_invert(_, _, _)

\* __invert__ at call depth `depth`: `inverted_role = ~self` evaluates
\* type(self).__invert__(self), this method again on the same object, before
\* any other statement; the nesting ends when the interpreter's limit is hit.
Role_invert(h, self, depth) ==
    IF depth >= MaxDepth
    THEN RetObj(h, "RecursionError", None)
    ELSE LET r == Role_invert(h, self, depth + 1)
         IN  IF r.exc # "none" THEN r
             ELSE RetObj([r.h EXCEPT !.inv[r.obj] = TRUE], "none", r.obj)

\* An object nothing refers to any more.
Drop(h, o) == [h EXCEPT !.ids[o] = {}, !.kids[o] = {}]

\* ------------------------------------------------------- specialized roles

\* ChatAdminsRole.__init__(bot, timeout)
ChatAdminsRole_init(h, bot, timeout) ==
    LET self == h.n + 1
        r == Role_init(h, {}, {})
    IN  IF r.exc # "none" THEN r
        ELSE Ret([r.h EXCEPT !.sp[self] = [cls |-> "ChatAdminsRole",
                                           bot |-> bot, cache |-> self,
                                           timeout |-> timeout],
                             !.caches[self] = EmptyDict], "none")

\* ChatCreatorRole.__init__(bot)
ChatCreatorRole_init(h, bot) ==
    LET self == h.n + 1
        r == Role_init(h, {}, {})
    IN  IF r.exc # "none" THEN r
        ELSE Ret([r.h EXCEPT !.sp[self] = [cls |-> "ChatCreatorRole",
                                           bot |-> bot, cache |-> self,
                                           timeout |-> None],
                             !.caches[self] = EmptyDict], "none")

\* Updates with the type of their chat.
DynUpdates ==
    [user : Ids \cup {None}, chat : Ids \cup {None},
     type : {"private", "group"}]

\* What bot.get_chat_administrators(chat.id) does when it is called: it
\* raises TelegramError or returns the admins, after `took` clock ticks.
AdminsAnswers ==
    {w \in [raises : BOOLEAN, admins : SUBSET Ids, took : {0, 1}] :
        w.raises => w.admins = {}}

\* What bot.get_chat_member(chat.id, user.id) does when it is called: it
\* raises TelegramError or returns a member whose status is CREATOR or not.
MemberAnswers == [raises : BOOLEAN, creator : BOOLEAN]

Bool(b) == IF b THEN "True" ELSE "False"

\* The outcome of a filter call: the heap, the value returned or the exception
\* raised, what became of the lookup ("none" when the bot was not asked), and
\* the time at the end of the call.
RetEval(h, out, lookup, t) == [h |-> h, out |-> out, lookup |-> lookup, now |-> t]

\* ChatAdminsRole.filter that tests the age of the entry with <=.
ChatAdminsRole_filter_le(h, self, update, t, w) ==
    LET c == h.sp[self].cache
        e == h.caches[c][update.chat]
    IN  IF update.user # None /\ update.chat # None
        THEN IF update.type = "private" THEN RetEval(h, "True", "none", t)
             ELSE IF e # <<>> /\ (t - e[1]) <= h.sp[self].timeout
             THEN RetEval(h, Bool(update.user \in e[2]), "none", t)
             ELSE IF w.raises
             THEN RetEval(h, "TelegramError", "raised", t + w.took)
             ELSE RetEval([h EXCEPT !.caches[c][update.chat] =
                                        <<t + w.took, w.admins>>],
                          Bool(update.user \in w.admins), "returned",
                          t + w.took)
        ELSE RetEval(h, "False", "none", t)

\* ChatAdminsRole.filter(update) called at time t, the bot answering w when
\* asked.  The entry is used when it is there and younger than the timeout;
\* otherwise the admins are fetched, outside any try, and stored with the
\* time read after the fetch.
ChatAdminsRole_filter(h, self, update, t, w) ==
    LET c == h.sp[self].cache
        e == h.caches[c][update.chat]
    IN  IF update.user # None /\ update.chat # None
        THEN IF update.type = "private" THEN RetEval(h, "True", "none", t)
             ELSE IF e # <<>> /\ (t - e[1]) < h.sp[self].timeout
             THEN RetEval(h, Bool(update.user \in e[2]), "none", t)
             ELSE IF w.raises
             THEN RetEval(h, "TelegramError", "raised", t + w.took)
             ELSE RetEval([h EXCEPT !.caches[c][update.chat] =
                                        <<t + w.took, w.admins>>],
                          Bool(update.user \in w.admins), "returned",
                          t + w.took)
        ELSE RetEval(h, "False", "none", t)

\* ChatCreatorRole.filter that looks the member up without reading the cache.
ChatCreatorRole_filter_uncached(h, self, update, t, w) ==
    LET c == h.sp[self].cache
    IN  IF update.user # None /\ update.chat # None
        THEN IF update.type = "private" THEN RetEval(h, "True", "none", t)
             ELSE IF w.raises THEN RetEval(h, "False", "raised", t)
             ELSE IF w.creator
             THEN RetEval([h EXCEPT !.caches[c][update.chat] =
                                        <<update.user>>],
                          "True", "returned", t)
             ELSE RetEval(h, "False", "returned", t)
        ELSE RetEval(h, "False", "none", t)

\* ChatCreatorRole.filter(update), the bot answering w when asked.  An entry
\* decides; otherwise the member is looked up inside try/except
\* TelegramError, and the user is stored when the status is CREATOR.
ChatCreatorRole_filter(h, self, update, t, w) ==
    LET c == h.sp[self].cache
        e == h.caches[c][update.chat]
    IN  IF update.user # None /\ update.chat # None
        THEN IF update.type = "private" THEN RetEval(h, "True", "none", t)
             ELSE IF e # <<>>
             THEN RetEval(h, Bool(update.user = e[1]), "none", t)
             ELSE IF w.raises THEN RetEval(h, "False", "raised", t)
             ELSE IF w.creator
             THEN RetEval([h EXCEPT !.caches[c][update.chat] =
                                        <<update.user>>],
                          "True", "returned", t)
             ELSE RetEval(h, "False", "returned", t)
        ELSE RetEval(h, "False", "none", t)

\* r(update), UpdateFilter.__call__: the filter method of the class of r.
\* The outcomes the call can have at time t, the bot answering wa to
\* get_chat_administrators and wm to get_chat_member.
Role_call(h, r, update, t, wa, wm) ==
    IF h.sp[r].cls = "ChatAdminsRole"
    THEN {ChatAdminsRole_filter(h, r, update, t, wa).out}
    ELSE IF h.sp[r].cls = "ChatCreatorRole"
    THEN {ChatCreatorRole_filter(h, r, update, t, wm).out}
    ELSE Role_filter(h, r, update, None)

\* ------------------------------------------------------------- deep copies

\* memo of copy.deepcopy: the copy made of each object, None when none was.
NoMemo == [o \in Obj |-> None]

RetCopy(h, exc, obj, memo) ==
    [h |-> h, exc |-> exc, obj |-> obj, memo |-> memo]

RECURSIVE deepcopy(_, _, _)
RECURSIVE Role_deepcopy_children(_, _, _, _)

\* Role.__deepcopy__, line 324: a is what new_role.add_child_role(<copy of
\* child_role>) came to.  The loop ends at the first call that raises.
Role_deepcopy_added(new_role, todo, child_role, memo, a) ==
    IF a.exc # "none" THEN RetCopy(a.h, a.exc, None, memo)
    ELSE Role_deepcopy_children(a.h, new_role, todo \ {child_role}, memo)

\* Role.__deepcopy__, line 324: k is what deepcopy(child_role, memo) came to.
Role_deepcopy_child(new_role, todo, child_role, k) ==
    IF k.exc # "none" THEN k
    ELSE Role_deepcopy_added(new_role, todo, child_role, k.memo,
                             Role_add_child_role(k.h, new_role, k.obj))

\* The child the loop over a set of roles takes first.
FirstOf(todo) == CHOOSE c \in todo : \A d \in todo : c <= d

\* The loop of Role.__deepcopy__ over the children not yet copied:
\* new_role.add_child_role(deepcopy(child_role, memo)).
Role_deepcopy_children(h, new_role, todo, memo) ==
    IF todo = {} THEN RetCopy(h, "none", new_role, memo)
    ELSE Role_deepcopy_child(new_role, todo, FirstOf(todo),
                             deepcopy(h, FirstOf(todo), memo))

\* Role.__deepcopy__, lines 322-325: r is what Role(chat_ids, name) came to,
\* h the heap before it.
Role_deepcopy_made(h, self, memo, r) ==
    IF r.exc # "none" THEN RetCopy(r.h, r.exc, None, memo)
    ELSE Role_deepcopy_children(r.h, h.n + 1, h.kids[self],
                                [memo EXCEPT ![self] = h.n + 1])

\* Role.__deepcopy__(memo): a Role, not an object of type(self), with the
\* members of self, then the copies of the children.
Role_deepcopy(h, self, memo) ==
    Role_deepcopy_made(h, self, memo, Role_init(h, h.ids[self], {}))

\* ChatAdminsRole.__deepcopy__, lines 380-383: k is the Role that
\* Role.__deepcopy__ made; it is given the bot, the cache (the same dict)
\* and the timeout of self.
ChatAdminsRole_deepcopy_attrs(h, self, k) ==
    IF k.exc # "none" THEN k
    ELSE [k EXCEPT !.h.sp[k.obj].bot = h.sp[self].bot,
                   !.h.sp[k.obj].cache = h.sp[self].cache,
                   !.h.sp[k.obj].timeout = h.sp[self].timeout]

\* ChatAdminsRole.__deepcopy__(memo)
ChatAdminsRole_deepcopy(h, self, memo) ==
    ChatAdminsRole_deepcopy_attrs(h, self, Role_deepcopy(h, self, memo))

\* ChatCreatorRole.__deepcopy__, lines 424-426: likewise, the bot and the
\* cache.
ChatCreatorRole_deepcopy_attrs(h, self, k) ==
    IF k.exc # "none" THEN k
    ELSE [k EXCEPT !.h.sp[k.obj].bot = h.sp[self].bot,
                   !.h.sp[k.obj].cache = h.sp[self].cache]

\* ChatCreatorRole.__deepcopy__(memo)
ChatCreatorRole_deepcopy(h, self, memo) ==
    ChatCreatorRole_deepcopy_attrs(h, self, Role_deepcopy(h, self, memo))

\* copy.deepcopy(x, memo): the copy memo holds, or x.__deepcopy__(memo).
deepcopy(h, x, memo) ==
    IF memo[x] # None THEN RetCopy(h, "none", memo[x], memo)
    ELSE IF h.sp[x].cls = "ChatAdminsRole"
    THEN ChatAdminsRole_deepcopy(h, x, memo)
    ELSE IF h.sp[x].cls = "ChatCreatorRole"
    THEN ChatCreatorRole_deepcopy(h, x, memo)
    ELSE Role_deepcopy(h, x, memo)

\* ----------------------------------------------------------- the registry

NoRegistry ==
    [built |-> "no", admins |-> None, chat_admins |-> None,
     chat_creator |-> None, roles |-> [nm \in Names |-> None]]

RetReg(h, exc, g) == [h |-> h, exc |-> exc, reg |-> g]

\* Roles.__init__: three roles are constructed (ChatAdminsRole and
\* ChatCreatorRole construct through Role.__init__), then chat_admins and
\* chat_creator are re-parented under admins.  An attribute of the instance
\* is assigned when the statement assigning it is reached.
Roles_init(h) ==
    LET r1 == Role_init(h, {}, {})
        g1 == [NoRegistry EXCEPT !.built = "raised", !.admins = h.n + 1]
        r2 == ChatAdminsRole_init(r1.h, Bot, Timeout)
        g2 == [g1 EXCEPT !.chat_admins = r1.h.n + 1]
        r3 == ChatCreatorRole_init(r2.h, Bot)
        g3 == [g2 EXCEPT !.chat_creator = r2.h.n + 1]
        r4 == Role_set_custom_admin(r3.h, g3.chat_admins, g3.admins)
        r5 == Role_set_custom_admin(r4.h, g3.chat_creator, g3.admins)
    IN  IF r1.exc # "none"
        THEN RetReg(r1.h, r1.exc, [NoRegistry EXCEPT !.built = "raised"])
        ELSE IF r2.exc # "none" THEN RetReg(r2.h, r2.exc, g1)
        ELSE IF r3.exc # "none" THEN RetReg(r3.h, r3.exc, g2)
        ELSE IF r4.exc # "none" THEN RetReg(r4.h, r4.exc, g3)
        ELSE IF r5.exc # "none" THEN RetReg(r5.h, r5.exc, g3)
        ELSE RetReg(r5.h, "none", [g3 EXCEPT !.built = "ok"])

\* Roles.add_role(name, chat_ids, child_roles).  `name in self` is
\* Mapping.__contains__: a lookup under the registry lock.  A role the call
\* constructed and did not register is referred to by nothing once it raised.
Roles_add_role(h, g, name, ids, kids) ==
    IF g.roles[name] # None
    THEN RetReg(h, "ValueError", g)
    ELSE LET role == h.n + 1
             r1 == Role_init(h, ids, kids)
             r2 == Role_set_custom_admin(r1.h, role, g.admins)
         IN  IF r1.exc # "none" THEN RetReg(Drop(r1.h, role), r1.exc, g)
             ELSE IF r2.exc # "none" THEN RetReg(Drop(r2.h, role), r2.exc, g)
             ELSE RetReg(r2.h, "none", [g EXCEPT !.roles[name] = role])

\* Roles.remove_role(name): pop under the registry lock (KeyError when the
\* name is absent), then admins.remove_child_role(role).
Roles_remove_role(h, g, name) ==
    IF g.roles[name] = None
    THEN RetReg(h, "KeyError", g)
    ELSE LET r == Role_remove_child_role(h, g.admins, g.roles[name])
         IN  RetReg(r.h, r.exc, [g EXCEPT !.roles[name] = None])

\* Roles.__eq__(other) for two Roles instances.
Roles_eq(h, g, other) ==
    /\ \A nm \in Names :
           g.roles[nm] # None
               => /\ other.roles[nm] # None
                  /\ Role_equals(h, g.roles[nm], other.roles[nm])
    /\ \A nm \in Names : other.roles[nm] # None => g.roles[nm] # None
    /\ Role_equals(h, g.admins, other.admins)

RECURSIVE Roles_deepcopy_roles(_, _, _, _, _)

\* Roles.__deepcopy__, line 577: k is what the loop over the children of
\* the role named nm came to.
Roles_deepcopy_kids(g, todo, nm, new_roles, k) ==
    IF k.exc # "none" THEN RetReg(k.h, k.exc, NoRegistry)
    ELSE Roles_deepcopy_roles(k.h, g, new_roles, todo \ {nm}, k.memo)

\* Roles.__deepcopy__, lines 575-577: a is what new_roles.add_role(name,
\* chat_ids) came to, h the heap before it.
Roles_deepcopy_role(h, g, todo, memo, nm, a) ==
    IF a.exc # "none" THEN RetReg(a.h, a.exc, NoRegistry)
    ELSE Roles_deepcopy_kids(g, todo, nm, a.reg,
             Role_deepcopy_children(a.h, a.reg.roles[nm],
                                    h.kids[g.roles[nm]], memo))

\* The loop of Roles.__deepcopy__ over the registered roles not yet copied:
\* add_role with the name and the members, then the copies of the children.
Roles_deepcopy_roles(h, g, new_roles, todo, memo) ==
    IF todo = {} THEN RetReg(h, "none", new_roles)
    ELSE LET nm == CHOOSE x \in todo : TRUE
         IN  Roles_deepcopy_role(h, g, todo, memo, nm,
                 Roles_add_role(h, new_roles, nm, h.ids[g.roles[nm]], {}))

\* Roles.__deepcopy__, lines 570-578: r is what Roles(self.bot) came to, h
\* the heap before it.  The timeout of chat_admins, the members of admins,
\* then every registered role.  A call that raises returns no registry.
Roles_deepcopy_fill(h, g, r) ==
    IF r.exc # "none" THEN RetReg(r.h, r.exc, NoRegistry)
    ELSE Roles_deepcopy_roles(
             [r.h EXCEPT
                 !.sp[r.reg.chat_admins].timeout = h.sp[g.chat_admins].timeout,
                 !.ids[r.reg.admins] = @ \cup h.ids[g.admins]],
             g, r.reg, {nm \in Names : g.roles[nm] # None}, NoMemo)

\* Roles.__deepcopy__(memo): new_roles = Roles(self.bot), then the rest.
Roles_deepcopy(h, g) == Roles_deepcopy_fill(h, g, Roles_init(h))

\* ---------------------------------------------------------------- actions

\* What a thread's call works on: the role under construction and the one
\* its __init_admin constructs, or the role the call is made on, the roles
\* it has still to look at, the one whose lock it holds, and its arguments.
NoCtor ==
    [self |-> None, inner |-> None, kids |-> {}, todo |-> {}, at |-> None,
     name |-> "", update |-> None]
NoCall == [op |-> "none", self |-> None, arg |-> None, res |-> "none"]
Call(op, self, arg, res) == [op |-> op, self |-> self, arg |-> arg, res |-> res]

\* What a call finds when it starts.
Before == [kids |-> child_roles, roles |-> reg.roles]

SetHeap(h) ==
    /\ nRoles' = h.n
    /\ chat_ids' = h.ids
    /\ child_roles' = h.kids
    /\ inverted' = h.inv
    /\ admin' = h.admin
    /\ admin_alt' = h.alt
    /\ admin_semaphore' = h.sem
    /\ roots' = h.roots
    /\ special' = h.sp
    /\ caches' = h.caches

Init ==
    /\ nRoles = 0
    /\ chat_ids = [o \in Obj |-> {}]
    /\ child_roles = [o \in Obj |-> {}]
    /\ inverted = [o \in Obj |-> FALSE]
    /\ admin = None
    /\ admin_alt = None
    /\ admin_semaphore = 1
    /\ roots = {}
    /\ admin_lock = None
    /\ role_lock = [o \in Obj |-> None]
    /\ reg_lock = None
    /\ started = 0
    /\ known = {}
    /\ reg = NoRegistry
    /\ last = NoCall
    /\ pre = [kids |-> child_roles, roles |-> reg.roles]
    /\ pc = [t \in Threads |-> "idle"]
    /\ cur = [t \in Threads |-> NoCtor]
    /\ gate = None
    /\ special = [o \in Obj |-> PlainRole]
    /\ caches = [o \in Obj |-> EmptyDict]
    /\ now = 0

\* role = Role(chat_ids=ids, child_roles=kids)
NewRole(ids, kids) ==
    LET r == Role_init(Heap, ids, kids)
        self == nRoles + 1
    IN  /\ r.h.n \in Obj
        /\ SetHeap(IF r.exc = "none" THEN r.h ELSE Drop(r.h, self))
        /\ known' = IF r.exc = "none" THEN known \cup {self} ELSE known
        /\ last' = Call("Role", self, kids, r.exc)
        /\ pre' = Before
        /\ UNCHANGED <<now, reg, threadVars>>

\* p.add_child_role(c)
AddChildRole(p, c) ==
    LET r == Role_add_child_role(Heap, p, c)
    IN  /\ SetHeap(r.h)
        /\ last' = Call("add_child_role", p, c, r.exc)
        /\ pre' = Before
        /\ UNCHANGED <<now, known, reg, threadVars>>

\* p.remove_child_role(c)
RemoveChildRole(p, c) ==
    LET r == Role_remove_child_role(Heap, p, c)
    IN  /\ SetHeap(r.h)
        /\ last' = Call("remove_child_role", p, c, r.exc)
        /\ pre' = Before
        /\ UNCHANGED <<now, known, reg, threadVars>>

\* r.add_member(i): add_chat_ids of the base filter.
AddMember(r, i) ==
    /\ chat_ids' = [chat_ids EXCEPT ![r] = @ \cup {i}]
    /\ last' = Call("add_member", r, i, "none")
    /\ pre' = Before
    /\ UNCHANGED <<dynVars, nRoles, child_roles, inverted, known, reg, classVars,
                   threadVars>>

\* r.kick_member(i): remove_chat_ids of the base filter.
KickMember(r, i) ==
    /\ chat_ids' = [chat_ids EXCEPT ![r] = @ \ {i}]
    /\ last' = Call("kick_member", r, i, "none")
    /\ pre' = Before
    /\ UNCHANGED <<dynVars, nRoles, child_roles, inverted, known, reg, classVars,
                   threadVars>>

\* r(update): UpdateFilter.__call__ evaluates r.filter(update), no target.
Evaluate(r, update) ==
    /\ \E o \in Role_filter(Heap, r, update, None) :
           last' = Call("filter", r, update, o)
    /\ pre' = Before
    /\ UNCHANGED <<dynVars, nRoles, chat_ids, child_roles, inverted, known, reg,
                   classVars, threadVars>>

\* a.equals(b)
Equals(a, b) ==
    /\ last' = Call("equals", a, b, Role_equals(Heap, a, b))
    /\ pre' = Before
    /\ UNCHANGED <<dynVars, nRoles, chat_ids, child_roles, inverted, known, reg,
                   classVars, threadVars>>

\* ~r
Invert(r) ==
    LET v == Role_invert(Heap, r, 0)
    IN  /\ SetHeap(v.h)
        /\ last' = Call("invert", r, v.obj, v.exc)
        /\ pre' = Before
        /\ UNCHANGED <<now, known, reg, threadVars>>

\* (~r)(update): the negation, then the evaluation of its result.
EvaluateInverted(r, update) ==
    LET v == Role_invert(Heap, r, 0)
    IN  /\ SetHeap(v.h)
        /\ \E o \in (IF v.exc # "none" THEN {v.exc}
                      ELSE Role_filter(v.h, v.obj, update, None)) :
               last' = Call("filter_inverted", r, update, o)
        /\ pre' = Before
        /\ UNCHANGED <<now, known, reg, threadVars>>

\* The registry attributes a call can reach: the Roles instance exists with
\* the attributes __init__ assigned before it ended, also when it raised.
HasRegistry == reg.built # "no" /\ reg.admins # None

RegistryRoles_of(g) ==
    ({g.admins, g.chat_admins, g.chat_creator} \cup {g.roles[nm] : nm \in Names})
        \ {None}

SetReg(r) ==
    /\ SetHeap(r.h)
    /\ reg' = r.reg
    /\ UNCHANGED <<now, known, threadVars>>

\* roles = Roles(bot)
RolesInit ==
    LET r == Roles_init(Heap)
    IN  /\ reg.built = "no"
        /\ SetReg(r)
        /\ last' = Call("Roles", None, None, r.exc)
        /\ pre' = Before

\* roles.add_role(name, ids, kids)
AddRole(name, ids, kids) ==
    LET r == Roles_add_role(Heap, reg, name, ids, kids)
    IN  /\ HasRegistry
        /\ r.h.n <= MaxRoles + RegistryRoles + 1
        /\ SetReg(r)
        /\ last' = Call("add_role", nRoles + 1,
                        [name |-> name, ids |-> ids, kids |-> kids], r.exc)
        /\ pre' = Before

\* roles.remove_role(name)
RemoveRole(name) ==
    LET r == Roles_remove_role(Heap, reg, name)
    IN  /\ HasRegistry
        /\ SetReg(r)
        /\ last' = Call("remove_role", reg.roles[name], name, r.exc)
        /\ pre' = Before

\* copy.deepcopy(roles)
RolesDeepCopy ==
    LET r == Roles_deepcopy(Heap, reg)
    IN  /\ HasRegistry
        /\ r.h.n \in Obj
        /\ SetHeap(r.h)
        /\ last' = Call("Roles.deepcopy", None, r.reg, r.exc)
        /\ pre' = Before
        /\ UNCHANGED <<now, known, reg, threadVars>>

\* roles.add_admin(i): admins.add_member(i)
AddAdmin(i) ==
    /\ HasRegistry
    /\ chat_ids' = [chat_ids EXCEPT ![reg.admins] = @ \cup {i}]
    /\ last' = Call("add_admin", reg.admins, i, "none")
    /\ pre' = Before
    /\ UNCHANGED <<dynVars, nRoles, child_roles, inverted, known, reg, classVars,
                   threadVars>>

\* roles.kick_admin(i): admins.kick_member(i)
KickAdmin(i) ==
    /\ HasRegistry
    /\ chat_ids' = [chat_ids EXCEPT ![reg.admins] = @ \ {i}]
    /\ last' = Call("kick_admin", reg.admins, i, "none")
    /\ pre' = Before
    /\ UNCHANGED <<dynVars, nRoles, child_roles, inverted, known, reg, classVars,
                   threadVars>>

RegNext ==
    \/ RolesInit
    \/ \E name \in Names, ids \in SUBSET Ids,
          kids \in SUBSET RegistryRoles_of(reg) : AddRole(name, ids, kids)
    \/ \E name \in Names : RemoveRole(name)
    \/ \E i \in Ids : AddAdmin(i)
    \/ \E i \in Ids : KickAdmin(i)
    \/ RolesDeepCopy

RegSpec == Init /\ [][RegNext]_vars

\* ------------------------------------------- construction, step by step

\* Role(chat_ids=ids, child_roles=kids) run by thread t, one action per
\* statement that reads or writes state other threads share.

\* Lines 127-133: the object and its fields.
CtorStart(t, ids, kids) ==
    /\ pc[t] = "idle"
    /\ nRoles - Cardinality(roots) < MaxRoles
    /\ nRoles + 1 \in Obj
    /\ nRoles' = nRoles + 1
    /\ chat_ids' = [chat_ids EXCEPT ![nRoles + 1] = ids]
    /\ child_roles' = [child_roles EXCEPT ![nRoles + 1] = kids]
    /\ inverted' = [inverted EXCEPT ![nRoles + 1] = FALSE]
    /\ cur' = [cur EXCEPT ![t] = [NoCtor EXCEPT !.self = nRoles + 1,
                                                 !.kids = kids]]
    /\ pc' = [pc EXCEPT ![t] = "semaphore"]
    /\ started' = started + 1
    /\ UNCHANGED <<dynVars, lockVars, classVars, admin_lock, gate, known, reg, last, pre>>

\* Line 135: self.__admin_semaphore.acquire(blocking=False)
CtorSemaphore(t) ==
    /\ pc[t] = "semaphore"
    /\ IF admin_semaphore = 1
       THEN /\ admin_semaphore' = 0
            /\ gate' = cur[t].self
            /\ pc' = [pc EXCEPT ![t] = "lock"]
       ELSE /\ pc' = [pc EXCEPT ![t] = "read"]
            /\ UNCHANGED <<admin_semaphore, gate>>
    /\ UNCHANGED <<dynVars, callVars, nRoles, chat_ids, child_roles, inverted, admin, admin_alt,
                   roots, admin_lock, cur, known, reg, last, pre>>

\* Line 143: with cls.__admin_lock (entering)
InitAdminLock(t) ==
    /\ pc[t] = "lock"
    /\ admin_lock = None
    /\ admin_lock' = t
    /\ pc' = [pc EXCEPT ![t] = "check"]
    /\ UNCHANGED <<dynVars, callVars, nRoles, chat_ids, child_roles, inverted, classVars, cur,
                   gate, known, reg, last, pre>>

\* Lines 144-145: if cls.__admin is None, cls(name='admins') starts: lines
\* 127-133 of the nested constructor.
InitAdminCheck(t) ==
    /\ pc[t] = "check"
    /\ IF admin = None
       THEN /\ nRoles + 1 \in Obj
            /\ nRoles' = nRoles + 1
            /\ chat_ids' = [chat_ids EXCEPT ![nRoles + 1] = {}]
            /\ child_roles' = [child_roles EXCEPT ![nRoles + 1] = {}]
            /\ inverted' = [inverted EXCEPT ![nRoles + 1] = FALSE]
            /\ cur' = [cur EXCEPT ![t].inner = nRoles + 1]
            /\ pc' = [pc EXCEPT ![t] = "inner_semaphore"]
       ELSE /\ pc' = [pc EXCEPT ![t] = "unlock"]
            /\ UNCHANGED <<nRoles, chat_ids, child_roles, inverted, cur>>
    /\ UNCHANGED <<dynVars, callVars, classVars, admin_lock, gate, known, reg, last, pre>>

\* Line 135 of the nested constructor.  The semaphore is never released, so
\* the acquire fails; were it to succeed, the nested __init_admin would wait
\* for the lock its own thread holds.
InnerSemaphore(t) ==
    /\ pc[t] = "inner_semaphore"
    /\ IF admin_semaphore = 1
       THEN /\ admin_semaphore' = 0
            /\ pc' = [pc EXCEPT ![t] = "inner_lock"]
       ELSE /\ pc' = [pc EXCEPT ![t] = "inner_read"]
            /\ UNCHANGED admin_semaphore
    /\ UNCHANGED <<dynVars, callVars, nRoles, chat_ids, child_roles, inverted, admin, admin_alt,
                   roots, admin_lock, cur, gate, known, reg, last, pre>>

\* Lines 138-139 of the nested constructor.
InnerRead(t) ==
    LET r == IF admin # None
             THEN Role_add_child_role(Heap, admin, cur[t].inner)
             ELSE Ret(Heap, "none")
    IN  /\ pc[t] = "inner_read"
        /\ SetHeap(r.h)
        /\ pc' = [pc EXCEPT ![t] = IF r.exc = "none" THEN "assign" ELSE "unlock"]
        /\ UNCHANGED <<now, callVars, admin_lock, cur, gate, known, reg, last, pre>>

\* Line 145, the store: cls.__admin__admin = <the new role>
InitAdminAssign(t) ==
    /\ pc[t] = "assign"
    /\ admin_alt' = cur[t].inner
    /\ roots' = roots \cup {cur[t].inner}
    /\ pc' = [pc EXCEPT ![t] = "unlock"]
    /\ UNCHANGED <<dynVars, callVars, nRoles, chat_ids, child_roles, inverted, admin,
                   admin_semaphore, admin_lock, cur, gate, known, reg, last,
                   pre>>

\* Line 143: with cls.__admin_lock (leaving)
InitAdminUnlock(t) ==
    /\ pc[t] = "unlock"
    /\ admin_lock' = None
    /\ pc' = [pc EXCEPT ![t] = "read"]
    /\ UNCHANGED <<dynVars, callVars, nRoles, chat_ids, child_roles, inverted, classVars, cur,
                   gate, known, reg, last, pre>>

\* Lines 138-139: if self.__admin is not None: self.__admin.add_child_role(self),
\* and the constructor returns.
CtorRead(t) ==
    LET r == IF admin # None
             THEN Role_add_child_role(Heap, admin, cur[t].self)
             ELSE Ret(Heap, "none")
    IN  /\ pc[t] = "read"
        /\ SetHeap(IF r.exc = "none" THEN r.h ELSE Drop(r.h, cur[t].self))
        /\ known' = IF r.exc = "none" THEN known \cup {cur[t].self} ELSE known
        /\ last' = Call("Role", cur[t].self, cur[t].kids, r.exc)
        /\ pre' = Before
        /\ pc' = [pc EXCEPT ![t] = "idle"]
        /\ cur' = [cur EXCEPT ![t] = NoCtor]
        /\ UNCHANGED <<now, callVars, admin_lock, gate, reg>>

ConcNext ==
    \E t \in Threads :
        \/ \E ids \in SUBSET Ids, kids \in SUBSET known : CtorStart(t, ids, kids)
        \/ CtorSemaphore(t)
        \/ InitAdminLock(t)
        \/ InitAdminCheck(t)
        \/ InnerSemaphore(t)
        \/ InnerRead(t)
        \/ InitAdminAssign(t)
        \/ InitAdminUnlock(t)
        \/ CtorRead(t)

ConcSpec == Init /\ [][ConcNext]_vars

\* The child graph: roles are constructed with child roles, children are
\* added and removed, hierarchical comparisons read the graph.
Next ==
    \/ \E kids \in SUBSET known :
           Cardinality(known) < MaxRoles /\ NewRole({}, kids)
    \/ \E p \in known, c \in known : AddChildRole(p, c)
    \/ \E p \in known, c \in known : RemoveChildRole(p, c)

Spec == Init /\ [][Next]_vars

\* Evaluation: roles are constructed with members and child roles, members
\* are added and kicked, children removed, and roles are evaluated on updates.
EvalNext ==
    \/ \E ids \in SUBSET Ids, kids \in SUBSET known :
           Cardinality(known) < MaxEvalRoles /\ NewRole(ids, kids)
    \/ \E r \in known, i \in Ids : AddMember(r, i)
    \/ \E r \in known, i \in Ids : KickMember(r, i)
    \/ \E p \in known, c \in known : RemoveChildRole(p, c)
    \/ \E r \in known, update \in Updates : Evaluate(r, update)
    \/ \E r \in known : Invert(r)
    \/ \E r \in known, update \in Updates : EvaluateInverted(r, update)

EvalSpec == Init /\ [][EvalNext]_vars

\* ------------------------------------------- specialized roles over time

\* The heap of Init.
InitHeap ==
    [n |-> 0, ids |-> [o \in Obj |-> {}], kids |-> [o \in Obj |-> {}],
     inv |-> [o \in Obj |-> FALSE], admin |-> None, alt |-> None, sem |-> 1,
     roots |-> {}, sp |-> [o \in Obj |-> PlainRole],
     caches |-> [o \in Obj |-> EmptyDict]]

\* The state a program is in once its first statements have constructed the
\* objects `made`, the last of them by the call `op`, leaving the heap h.
InitAfter(h, made, op) ==
    /\ nRoles = h.n
    /\ chat_ids = h.ids
    /\ child_roles = h.kids
    /\ inverted = h.inv
    /\ admin = h.admin
    /\ admin_alt = h.alt
    /\ admin_semaphore = h.sem
    /\ roots = h.roots
    /\ special = h.sp
    /\ caches = h.caches
    /\ now = 0
    /\ admin_lock = None
    /\ role_lock = [o \in Obj |-> None]
    /\ reg_lock = None
    /\ started = 0
    /\ known = made
    /\ reg = NoRegistry
    /\ last = Call(op, None, None, "none")
    /\ pre = [kids |-> InitHeap.kids, roles |-> NoRegistry.roles]
    /\ pc = [t \in Threads |-> "idle"]
    /\ cur = [t \in Threads |-> NoCtor]
    /\ gate = None

\* time.time() returns a later value.
Tick ==
    /\ now < MaxTime
    /\ now' = now + 1
    /\ UNCHANGED <<nRoles, chat_ids, child_roles, inverted, classVars,
                   threadVars, known, reg, last, pre, special, caches>>

\* What a filter call that did not ask the bot is given as the answer.
NoAdminsAnswer == [raises |-> FALSE, admins |-> {}, took |-> 0]
NoMemberAnswer == [raises |-> FALSE, creator |-> FALSE]

\* r(update) for a ChatAdminsRole r; the bot answers w when it is asked.
EvaluateChatAdmins(r, update, w) ==
    LET v == ChatAdminsRole_filter(Heap, r, update, now, w)
    IN  /\ special[r].cls = "ChatAdminsRole"
        /\ v.now <= MaxTime
        /\ v.lookup = "none" => w = NoAdminsAnswer
        /\ SetHeap(v.h)
        /\ now' = v.now
        /\ last' = Call("ChatAdminsRole.filter", r,
                        [update |-> update, lookup |-> v.lookup, at |-> now,
                         answer |-> w], v.out)
        /\ pre' = Before
        /\ UNCHANGED <<known, reg, threadVars>>

\* r(update) for a ChatCreatorRole r; the bot answers w when it is asked.
EvaluateChatCreator(r, update, w) ==
    LET v == ChatCreatorRole_filter(Heap, r, update, now, w)
    IN  /\ special[r].cls = "ChatCreatorRole"
        /\ v.lookup = "none" => w = NoMemberAnswer
        /\ v.lookup = "raised" => ~w.creator
        /\ SetHeap(v.h)
        /\ now' = v.now
        /\ last' = Call("ChatCreatorRole.filter", r,
                        [update |-> update, lookup |-> v.lookup, at |-> now,
                         answer |-> w], v.out)
        /\ pre' = Before
        /\ UNCHANGED <<known, reg, threadVars>>

\* A program that constructs a ChatAdminsRole and evaluates it as time passes.
AdminsInit ==
    InitAfter(ChatAdminsRole_init(InitHeap, Bot, Timeout).h,
              {InitHeap.n + 1}, "ChatAdminsRole")

AdminsNext ==
    \/ Tick
    \/ \E r \in known, update \in DynUpdates, w \in AdminsAnswers :
           EvaluateChatAdmins(r, update, w)

AdminsSpec == AdminsInit /\ [][AdminsNext]_vars

\* A program that constructs a ChatCreatorRole and evaluates it as time
\* passes.
CreatorInit ==
    InitAfter(ChatCreatorRole_init(InitHeap, Bot).h, {InitHeap.n + 1},
              "ChatCreatorRole")

CreatorNext ==
    \/ Tick
    \/ \E r \in known, update \in DynUpdates, w \in MemberAnswers :
           EvaluateChatCreator(r, update, w)

CreatorSpec == CreatorInit /\ [][CreatorNext]_vars

\* r2 = copy.deepcopy(r)
DeepCopy(r) ==
    LET k == deepcopy(Heap, r, NoMemo)
    IN  /\ k.h.n \in Obj
        /\ SetHeap(k.h)
        /\ known' = IF k.exc = "none" THEN known \cup {k.obj} ELSE known
        /\ last' = Call("deepcopy", r, k.obj, k.exc)
        /\ pre' = Before
        /\ UNCHANGED <<now, reg, threadVars>>

\* The objects a program has once it has constructed a ChatAdminsRole and
\* then a ChatCreatorRole.
Originals ==
    {InitHeap.n + 1, ChatAdminsRole_init(InitHeap, Bot, Timeout).h.n + 1}

\* A program that constructs a ChatAdminsRole and a ChatCreatorRole, copies
\* roles with copy.deepcopy and evaluates originals and copies as time passes.
CopyInit ==
    InitAfter(ChatCreatorRole_init(
                  ChatAdminsRole_init(InitHeap, Bot, Timeout).h, Bot).h,
              Originals, "ChatCreatorRole")

CopyNext ==
    \/ Tick
    \/ \E r \in known :
           Cardinality(known \ Originals) < MaxCopies /\ DeepCopy(r)
    \/ \E r \in known, update \in DynUpdates, w \in AdminsAnswers :
           EvaluateChatAdmins(r, update, w)
    \/ \E r \in known, update \in DynUpdates, w \in MemberAnswers :
           EvaluateChatCreator(r, update, w)
    \/ \E r \in known, update \in DynUpdates :
           special[r].cls = "Role" /\ Evaluate(r, update)

CopySpec == CopyInit /\ [][CopyNext]_vars

\* Comparison: roles are constructed with members and child roles, and are
\* compared with equals.
EqNext ==
    \/ \E ids \in SUBSET Ids, kids \in SUBSET known :
           Cardinality(known) < MaxEqRoles /\ NewRole(ids, kids)
    \/ \E a \in known, b \in known : Equals(a, b)

EqSpec == Init /\ [][EqNext]_vars

\* The heap once Role(chat_ids=Ids), Role(chat_ids=Ids), Role() and Role()
\* have been constructed: two childless roles with members, two without.
PairHeap ==
    Role_init(Role_init(Role_init(Role_init(InitHeap, Ids, {}).h,
                                  Ids, {}).h, {}, {}).h, {}, {}).h

PairLeaves == (1..PairHeap.n) \ PairHeap.roots

\* A program that constructs those four roles, then roles that take some of
\* the roles it has as children, and compares roles with equals.
PairInit == InitAfter(PairHeap, PairLeaves, "Role")

PairNext ==
    \/ \E kids \in SUBSET known :
           Cardinality(known \ PairLeaves) < MaxParents /\ NewRole({}, kids)
    \/ \E a \in known, b \in known : Equals(a, b)

PairSpec == PairInit /\ [][PairNext]_vars

\* ------------------------------------------------ calls, lock by lock

\* The calls of the threads, one action per acquisition of a lock and one
\* per critical section with its release.  A `with lock:` block releases
\* the lock when its body raises.  A call that ends returns its thread to
\* "idle", whether it returned or raised.

\* What a step that touches only the thread and the role locks leaves alone.
restVars ==
    <<dynVars, nRoles, chat_ids, child_roles, inverted, classVars,
      admin_lock, reg_lock, gate, known, reg, last, pre>>
stepVars == <<restVars, started>>

Done(t) ==
    /\ pc' = [pc EXCEPT ![t] = "idle"]
    /\ cur' = [cur EXCEPT ![t] = NoCtor]

\* with <role>.__lock (entering), line 176: thread t, at `from`, takes the
\* lock of one of the roles it has to look at.
TakeRoleLock(t, from, to) ==
    /\ pc[t] = from
    /\ \E x \in cur[t].todo :
           /\ x # cur[t].self \/ from # "le"
           /\ role_lock[x] = None
           /\ role_lock' = [role_lock EXCEPT ![x] = t]
           /\ cur' = [cur EXCEPT ![t].at = x]
    /\ pc' = [pc EXCEPT ![t] = to]
    /\ UNCHANGED <<dynVars, started, nRoles, chat_ids, child_roles, inverted,
                   classVars, admin_lock, reg_lock, gate, known, reg, last,
                   pre>>

\* The read of child_roles that keeps the lock while there are further
\* roles to read.
ReadChildRoles_keeps_lock(t, from, to, end) ==
    LET x == cur[t].at
        todo == (cur[t].todo \ {x}) \cup child_roles[x]
    IN  /\ pc[t] = from
        /\ IF todo = {}
           THEN /\ role_lock' = [role_lock EXCEPT ![x] = None]
                /\ IF end = "idle"
                   THEN Done(t)
                   ELSE /\ pc' = [pc EXCEPT ![t] = end]
                        /\ cur' = [cur EXCEPT ![t].todo = {}, ![t].at = None]
           ELSE /\ pc' = [pc EXCEPT ![t] = to]
                /\ cur' = [cur EXCEPT ![t].todo = todo, ![t].at = None]
                /\ UNCHANGED role_lock
        /\ UNCHANGED <<dynVars, nRoles, chat_ids, child_roles, inverted,
                       classVars, admin_lock, reg_lock, started, gate, known,
                       reg, last, pre>>

\* Lines 176-177, the child_roles property: frozenset(self._child_roles) is
\* taken under the role's lock and the lock is released; the caller goes on
\* to the children it read.
ReadChildRoles(t, from, to, end) ==
    LET x == cur[t].at
        todo == (cur[t].todo \ {x}) \cup child_roles[x]
    IN  /\ pc[t] = from
        /\ role_lock' = [role_lock EXCEPT ![x] = None]
        /\ IF todo = {}
           THEN IF end = "idle"
                THEN Done(t)
                ELSE /\ pc' = [pc EXCEPT ![t] = end]
                     /\ cur' = [cur EXCEPT ![t].todo = {}, ![t].at = None]
           ELSE /\ pc' = [pc EXCEPT ![t] = to]
                /\ cur' = [cur EXCEPT ![t].todo = todo, ![t].at = None]
        /\ UNCHANGED <<dynVars, nRoles, chat_ids, child_roles, inverted,
                       classVars, admin_lock, reg_lock, started, gate, known,
                       reg, last, pre>>

\* p.add_child_role(c), lines 249-251: `self is child_role` raises
\* ValueError; otherwise `self <= child_role` starts at c.
AddChildStart(t, p, c) ==
    /\ pc[t] = "idle"
    /\ IF p = c
       THEN UNCHANGED <<pc, cur>>
       ELSE /\ pc' = [pc EXCEPT ![t] = "le"]
            /\ cur' = [cur EXCEPT ![t] = [NoCtor EXCEPT !.self = p,
                                                         !.kids = {c},
                                                         !.todo = {c}]]
    /\ started' = started + 1
    /\ UNCHANGED <<restVars, role_lock>>

\* __le__, line 272: `self is other` holds for a role the comparison
\* reached, the comparison is True and line 252 raises ValueError.
LeFound(t) ==
    /\ pc[t] = "le"
    /\ cur[t].self \in cur[t].todo
    /\ Done(t)
    /\ UNCHANGED <<stepVars, role_lock>>

\* __lt__, line 267: other.child_roles of a role the comparison reached.
LeLock(t) == TakeRoleLock(t, "le", "le_locked")

\* The children read, the comparison goes on with them; with none left it
\* is False and add_child_role goes on to line 252.
LeRead(t) == ReadChildRoles(t, "le_locked", "le", "add_lock")

\* Line 252: with self.__lock (entering)
AddChildLock(t) ==
    /\ pc[t] = "add_lock"
    /\ role_lock[cur[t].self] = None
    /\ role_lock' = [role_lock EXCEPT ![cur[t].self] = t]
    /\ pc' = [pc EXCEPT ![t] = "add_locked"]
    /\ UNCHANGED <<stepVars, cur>>

\* Line 253: self._child_roles |= child_role, and the lock is released.
AddChildWrite(t) ==
    LET c == CHOOSE c \in cur[t].kids : TRUE
        r == set_ior_role(child_roles, cur[t].self, c)
    IN  /\ pc[t] = "add_locked"
        /\ child_roles' = r.h
        /\ role_lock' = [role_lock EXCEPT ![cur[t].self] = None]
        /\ Done(t)
        /\ UNCHANGED <<dynVars, started, nRoles, chat_ids, inverted, classVars,
                       admin_lock, reg_lock, gate, known, reg, last, pre>>

\* p.remove_child_role(c), line 261: with self.__lock (entering)
RemoveChildStart(t, p, c) ==
    /\ pc[t] = "idle"
    /\ pc' = [pc EXCEPT ![t] = "discard_lock"]
    /\ cur' = [cur EXCEPT ![t] = [NoCtor EXCEPT !.self = p, !.kids = {c}]]
    /\ started' = started + 1
    /\ UNCHANGED <<restVars, role_lock>>

RemoveChildLock(t) ==
    /\ pc[t] = "discard_lock"
    /\ role_lock[cur[t].self] = None
    /\ role_lock' = [role_lock EXCEPT ![cur[t].self] = t]
    /\ pc' = [pc EXCEPT ![t] = "discard_locked"]
    /\ UNCHANGED <<stepVars, cur>>

\* Line 262: self._child_roles.discard(child_role), and the lock is released.
RemoveChildDiscard(t) ==
    LET c == CHOOSE c \in cur[t].kids : TRUE
        r == Role_remove_child_role(Heap, cur[t].self, c)
    IN  /\ pc[t] = "discard_locked"
        /\ child_roles' = r.h.kids
        /\ role_lock' = [role_lock EXCEPT ![cur[t].self] = None]
        /\ Done(t)
        /\ UNCHANGED <<dynVars, started, nRoles, chat_ids, inverted, classVars,
                       admin_lock, reg_lock, gate, known, reg, last, pre>>

\* r._set_custom_admin(a), line 148: with self.__admin_lock (entering)
SetAdminStart(t, r, a) ==
    /\ pc[t] = "idle"
    /\ pc' = [pc EXCEPT ![t] = "admin_lock"]
    /\ cur' = [cur EXCEPT ![t] = [NoCtor EXCEPT !.self = r, !.kids = {a}]]
    /\ started' = started + 1
    /\ UNCHANGED <<restVars, role_lock>>

SetAdminLock(t) ==
    /\ pc[t] = "admin_lock"
    /\ admin_lock = None
    /\ admin_lock' = t
    /\ pc' = [pc EXCEPT ![t] = "admin_locked"]
    /\ UNCHANGED <<dynVars, started, nRoles, chat_ids, child_roles, inverted,
                   classVars, callVars, cur, gate, known, reg, last, pre>>

\* Line 149: self.__admin.remove_child_role(self).  Role.__admin is None:
\* the attribute lookup raises AttributeError, the admin lock is released,
\* and a role add_role had constructed for the call is referred to by
\* nothing.  Were it a role, its child set would be written under its lock
\* while the admin lock is held, and line 150, new_admin.add_child_role(self),
\* would follow.
SetAdminRemove(t) ==
    LET self == cur[t].self
        new_admin == CHOOSE a \in cur[t].kids : TRUE
    IN  /\ pc[t] = "admin_locked"
        /\ admin_lock' = None
        /\ IF admin = None
           THEN /\ SetHeap(IF self \notin known THEN Drop(Heap, self)
                           ELSE Heap)
                /\ Done(t)
           ELSE /\ role_lock[admin] = None
                /\ SetHeap(Role_remove_child_role(Heap, admin, self).h)
                /\ IF new_admin = self
                   THEN Done(t)
                   ELSE /\ pc' = [pc EXCEPT ![t] = "le"]
                        /\ cur' = [cur EXCEPT ![t] =
                                      [cur[t] EXCEPT !.self = new_admin,
                                                     !.kids = {self},
                                                     !.todo = {self}]]
        /\ UNCHANGED <<now, callVars, gate, known, reg, last, pre>>

\* The threads whose add_role has still to construct its role.
Constructing ==
    {t \in Threads : pc[t] \in {"contains_lock", "contains_locked", "construct"}}

\* roles.add_role(name, child_roles=kids), line 531: `name in self` is
\* Mapping.__contains__, which calls __getitem__ (line 483): with self.__lock
AddRoleStart(t, name, kids) ==
    /\ pc[t] = "idle"
    /\ HasRegistry
    /\ nRoles + Cardinality(Constructing) + 1 \in Obj
    /\ pc' = [pc EXCEPT ![t] = "contains_lock"]
    /\ cur' = [cur EXCEPT ![t] = [NoCtor EXCEPT !.name = name, !.kids = kids]]
    /\ started' = started + 1
    /\ UNCHANGED <<restVars, role_lock>>

AddRoleContainsLock(t) ==
    /\ pc[t] = "contains_lock"
    /\ reg_lock = None
    /\ reg_lock' = t
    /\ pc' = [pc EXCEPT ![t] = "contains_locked"]
    /\ UNCHANGED <<dynVars, started, nRoles, chat_ids, child_roles, inverted,
                   classVars, admin_lock, role_lock, cur, gate, known, reg,
                   last, pre>>

\* Line 484: self.__roles[item], and the lock is released; line 532 raises
\* ValueError for a name that is registered.
AddRoleContains(t) ==
    /\ pc[t] = "contains_locked"
    /\ reg_lock' = None
    /\ IF reg.roles[cur[t].name] # None
       THEN Done(t)
       ELSE /\ pc' = [pc EXCEPT ![t] = "construct"]
            /\ UNCHANGED cur
    /\ UNCHANGED <<dynVars, started, nRoles, chat_ids, child_roles, inverted,
                   classVars, admin_lock, role_lock, gate, known, reg, last,
                   pre>>

\* Line 533: role = Role(chat_ids=chat_ids, child_roles=child_roles,
\* name=name).  The registry's own roles were constructed before it, so the
\* semaphore is taken and this constructor does not enter __init_admin.
\* Line 534, role._set_custom_admin(self.admins), follows.
AddRoleConstruct(t) ==
    LET r == Role_init(Heap, {}, cur[t].kids)
        role == nRoles + 1
    IN  /\ pc[t] = "construct"
        /\ role \in Obj
        /\ admin_semaphore = 0
        /\ SetHeap(r.h)
        /\ IF r.exc # "none"
           THEN Done(t)
           ELSE /\ pc' = [pc EXCEPT ![t] = "admin_lock"]
                /\ cur' = [cur EXCEPT ![t].self = role,
                                      ![t].kids = {reg.admins}]
        /\ UNCHANGED <<now, admin_lock, callVars, gate, known, reg, last, pre>>

\* roles.remove_role(name), line 547: with self.__lock (entering)
RemoveRoleStart(t, name) ==
    /\ pc[t] = "idle"
    /\ HasRegistry
    /\ pc' = [pc EXCEPT ![t] = "pop_lock"]
    /\ cur' = [cur EXCEPT ![t] = [NoCtor EXCEPT !.name = name]]
    /\ started' = started + 1
    /\ UNCHANGED <<restVars, role_lock>>

RemoveRoleLock(t) ==
    /\ pc[t] = "pop_lock"
    /\ reg_lock = None
    /\ reg_lock' = t
    /\ pc' = [pc EXCEPT ![t] = "pop_locked"]
    /\ UNCHANGED <<dynVars, started, nRoles, chat_ids, child_roles, inverted,
                   classVars, admin_lock, role_lock, cur, gate, known, reg,
                   last, pre>>

\* Line 548: role = self.__roles.pop(name), and the lock is released.  A
\* name that is absent raises KeyError; for one that is registered line 549,
\* self.admins.remove_child_role(role), follows.
RemoveRolePop(t) ==
    LET name == cur[t].name
    IN  /\ pc[t] = "pop_locked"
        /\ reg_lock' = None
        /\ IF reg.roles[name] = None
           THEN /\ Done(t)
                /\ UNCHANGED reg
           ELSE /\ reg' = [reg EXCEPT !.roles[name] = None]
                /\ pc' = [pc EXCEPT ![t] = "discard_lock"]
                /\ cur' = [cur EXCEPT ![t] =
                              [NoCtor EXCEPT !.self = reg.admins,
                                             !.kids = {reg.roles[name]}]]
        /\ UNCHANGED <<dynVars, started, nRoles, chat_ids, child_roles, inverted,
                       classVars, admin_lock, role_lock, gate, known, last,
                       pre>>

\* r.filter(update, target), lines 191-216: an update with neither user nor
\* chat and one of a member are answered at once; otherwise the children
\* of a root are read: self for an inverted role or a given target, the
\* admin root else, which is None, and None.child_roles raises
\* AttributeError.
FilterStart(t, r, update, target) ==
    LET root == IF inverted[r] \/ target # None THEN r ELSE admin
        answered ==
            \/ update.user = None /\ update.chat = None
            \/ update.user # None /\ update.user \in chat_ids[r]
            \/ update.chat # None /\ update.chat \in chat_ids[r]
    IN  /\ pc[t] = "idle"
        /\ IF answered \/ root = None
           THEN UNCHANGED <<pc, cur>>
           ELSE /\ pc' = [pc EXCEPT ![t] = "filter"]
                /\ cur' = [cur EXCEPT ![t] = [NoCtor EXCEPT !.self = r,
                                                             !.todo = {root}]]
        /\ started' = started + 1
    /\ UNCHANGED <<restVars, role_lock>>

\* Lines 208 and 219: <role>.child_roles, for the root and then for the
\* children the evaluation and its `target <= child` tests descend to.
FilterLock(t) == TakeRoleLock(t, "filter", "filter_locked")

FilterRead(t) == ReadChildRoles(t, "filter_locked", "filter", "idle")

\* roles.chat_admins(update), lines 361-371: an update without user or
\* chat, one from a private chat and one the cache answers need no lookup;
\* otherwise line 373 asks the bot: self.bot.get_chat_administrators(chat.id)
LookupStart(t, update) ==
    LET r == reg.chat_admins
        v == ChatAdminsRole_filter(Heap, r, update, now, NoAdminsAnswer)
    IN  /\ pc[t] = "idle"
        /\ HasRegistry
        /\ r # None
        /\ IF v.lookup = "none"
           THEN UNCHANGED <<pc, cur>>
           ELSE /\ pc' = [pc EXCEPT ![t] = "lookup"]
                /\ cur' = [cur EXCEPT ![t] = [NoCtor EXCEPT !.self = r,
                                                             !.update = update]]
        /\ started' = started + 1
    /\ UNCHANGED <<restVars, role_lock>>

\* The bot answers w: a TelegramError leaves the call, admins are stored
\* with the time read after the answer (line 374).
LookupReturn(t, w) ==
    LET r == cur[t].self
        c == special[r].cache
        chat == cur[t].update.chat
    IN  /\ pc[t] = "lookup"
        /\ now + w.took <= MaxTime
        /\ now' = now + w.took
        /\ caches' = IF w.raises THEN caches
                     ELSE [caches EXCEPT ![c][chat] = <<now + w.took, w.admins>>]
        /\ Done(t)
        /\ UNCHANGED <<special, started, nRoles, chat_ids, child_roles, inverted,
                       classVars, admin_lock, callVars, gate, known, reg,
                       last, pre>>

\* The clock stands still while the threads run: the bot answers at once.
LockAnswers == {w \in AdminsAnswers : w.took = 0}

\* roles = Roles(bot), run while no other call is in progress.
LockRolesInit ==
    /\ \A t \in Threads : pc[t] = "idle"
    /\ RolesInit

\* A thread starts a call: one of MaxCalls.
Start(t) ==
    \/ \E kids \in SUBSET known :
           /\ nRoles - Cardinality(roots) < MaxLockRoles
           /\ CtorStart(t, {}, kids)
    \/ \E p \in known, c \in known : AddChildStart(t, p, c)
    \/ \E p \in known, c \in known : RemoveChildStart(t, p, c)
    \/ \E r \in known, a \in known : SetAdminStart(t, r, a)
    \/ \E name \in Names, kids \in SUBSET known : AddRoleStart(t, name, kids)
    \/ \E name \in Names : RemoveRoleStart(t, name)
    \/ \E r \in known, update \in Updates, target \in known \cup {None} :
           FilterStart(t, r, update, target)
    \/ \E update \in DynUpdates : LookupStart(t, update)

\* A thread waits for a lock and takes it.
Acquire(t) ==
    \/ InitAdminLock(t)
    \/ LeLock(t)
    \/ AddChildLock(t)
    \/ RemoveChildLock(t)
    \/ SetAdminLock(t)
    \/ AddRoleContainsLock(t)
    \/ RemoveRoleLock(t)
    \/ FilterLock(t)

\* A thread takes a step that waits for nothing.
Proceed(t) ==
    \/ CtorSemaphore(t)
    \/ InitAdminCheck(t)
    \/ InnerSemaphore(t)
    \/ InnerRead(t)
    \/ InitAdminAssign(t)
    \/ InitAdminUnlock(t)
    \/ CtorRead(t)
    \/ LeFound(t)
    \/ LeRead(t)
    \/ AddChildWrite(t)
    \/ RemoveChildDiscard(t)
    \/ SetAdminRemove(t)
    \/ AddRoleContains(t)
    \/ AddRoleConstruct(t)
    \/ RemoveRolePop(t)
    \/ FilterRead(t)
    \/ \E w \in LockAnswers : LookupReturn(t, w)

LockNext ==
    \/ LockRolesInit
    \/ \E t \in Threads :
           \/ started < MaxCalls /\ Start(t)
           \/ Acquire(t)
           \/ Proceed(t)

\* A thread that can go on with its call does so.
LockFairness == \A t \in Threads : WF_vars(Acquire(t) \/ Proceed(t))

LockSpec == Init /\ [][LockNext]_vars /\ LockFairness

\* The heap once a = Role(), b = Role(child_roles=[a]) and c = Role() have
\* been constructed.
RaceHeap ==
    Role_init(Role_init(Role_init(InitHeap, {}, {}).h,
                        {}, {InitHeap.n + 1}).h, {}, {}).h

\* A program that constructs those roles and then has its threads call
\* add_child_role on them, MaxCalls times in all.
RaceInit == InitAfter(RaceHeap, (1..RaceHeap.n) \ RaceHeap.roots, "Role")

RaceNext ==
    \E t \in Threads :
        \/ \E p \in known, c \in known :
               started < MaxCalls /\ AddChildStart(t, p, c)
        \/ LeFound(t)
        \/ LeLock(t)
        \/ LeRead(t)
        \/ AddChildLock(t)
        \/ AddChildWrite(t)

RaceSpec == RaceInit /\ [][RaceNext]_vars

\* ------------------------------------------------------- graph vocabulary

RECURSIVE Closure(_, _, _)
\* S with everything reachable from it in at most n child edges.
Closure(kids, S, n) ==
    IF n = 0 THEN S
    ELSE Closure(kids, S \cup UNION {kids[x] : x \in S}, n - 1)

\* The roles reachable from r by one or more child edges.
Descendants(kids, r) == Closure(kids, kids[r], Cardinality(Obj))

\* The roles that dominate r.
Dominators(kids, r) == {d \in Obj : r \in Descendants(kids, d)}

Allocated == 1..nRoles

UpdateIds(update) == {update.user, update.chat} \ {None}

\* ------------------------------------------------------------------ claims

\* C1: after any sequence of add_child_role and remove_child_role calls,
\* accepted or rejected, no role is reachable from itself by one or more
\* child edges.
C1_Acyclic ==
    \A r \in Obj : r \notin Descendants(child_roles, r)

\* C1 witness: an add_child_role call has completed whose argument dominates
\* the receiver through an intermediate role, the case that would close a
\* cycle.
C1_Witness ==
    /\ last.op = "add_child_role"
    /\ last.self \in Descendants(child_roles, last.arg)
    /\ last.self \notin child_roles[last.arg]

\* C2: evaluating a non-inverted role R with no target matches every update
\* one of whose ids is a direct member of R or of a role that dominates R.
C2_DominatorsMatch ==
    (/\ last.op = "filter"
     /\ ~inverted[last.self]
     /\ \E d \in {last.self} \cup Dominators(child_roles, last.self) :
            UpdateIds(last.arg) \cap chat_ids[d] # {})
        => last.res = "True"

\* C3: evaluating a non-inverted role R with no target does not match an
\* update with neither user nor chat (the result is False), and does not
\* match an update none of whose ids is a member of R or of a role that
\* dominates R.
C3_NoMatchOutside ==
    /\ (/\ last.op = "filter"
        /\ UpdateIds(last.arg) = {})
           => last.res = "False"
    /\ (/\ last.op = "filter"
        /\ ~inverted[last.self]
        /\ \A d \in {last.self} \cup Dominators(child_roles, last.self) :
               UpdateIds(last.arg) \cap chat_ids[d] = {})
           => last.res # "True"

\* C3 witness: R was evaluated on an update whose id is a member of a role R
\* dominates and of no role that is R or dominates R.
C3_Witness ==
    /\ last.op = "filter"
    /\ \A d \in {last.self} \cup Dominators(child_roles, last.self) :
           UpdateIds(last.arg) \cap chat_ids[d] = {}
    /\ \E c \in Descendants(child_roles, last.self) :
           UpdateIds(last.arg) \cap chat_ids[c] # {}

\* C4: p.add_child_role(c) with c not p and c not dominating p returns
\* without an error, after it c is a child of p beside every previous child,
\* and when c was a child already nothing changes.
C4_AddChildSucceeds ==
    (/\ last.op = "add_child_role"
     /\ last.arg # last.self
     /\ last.self \notin Descendants(pre.kids, last.arg))
        => /\ last.res = "none"
           /\ child_roles[last.self] = pre.kids[last.self] \cup {last.arg}
           /\ \A o \in Obj \ {last.self} : child_roles[o] = pre.kids[o]

\* C5: p.add_child_role(c) raises ValueError when c is p and when c dominates
\* p directly or transitively, and a call that raised leaves every child set
\* as it was.
C5_CycleRejected ==
    /\ (/\ last.op = "add_child_role"
        /\ \/ last.arg = last.self
           \/ last.self \in Descendants(pre.kids, last.arg))
           => last.res = "ValueError"
    /\ (/\ last.op = "add_child_role"
        /\ last.res # "none")
           => child_roles = pre.kids

\* C5 witness: a call was rejected whose argument dominates the receiver
\* through an intermediate role.
C5_Witness ==
    /\ last.op = "add_child_role"
    /\ last.res = "ValueError"
    /\ last.self \in Descendants(pre.kids, last.arg)
    /\ last.self \notin pre.kids[last.arg]

\* C6: on every reachable child graph < is irreflexive and transitive, is
\* false both ways between roles neither of which is reachable from the
\* other, holds exactly along reachability, <= is "is or <", and > and >= are
\* the mirror relations.
C6_Ordering ==
    \A a \in Allocated, b \in Allocated :
        /\ ~Role_lt(child_roles, a, a)
        /\ \A c \in Allocated :
               (Role_lt(child_roles, a, b) /\ Role_lt(child_roles, b, c))
                   => Role_lt(child_roles, a, c)
        /\ (a \notin Descendants(child_roles, b)
                /\ b \notin Descendants(child_roles, a))
               => (~Role_lt(child_roles, a, b) /\ ~Role_lt(child_roles, b, a))
        /\ Role_lt(child_roles, a, b) <=> a \in Descendants(child_roles, b)
        /\ Role_le(child_roles, a, b) <=> (a = b \/ Role_lt(child_roles, a, b))
        /\ Role_gt(child_roles, a, b) <=> Role_lt(child_roles, b, a)
        /\ Role_ge(child_roles, a, b) <=> Role_le(child_roles, b, a)

\* C6 witness: after a remove_child_role call the graph holds a chain
\* a < b < c in which a is no direct child of c, and two unrelated roles.
C6_Witness ==
    /\ last.op = "remove_child_role"
    /\ \E a \in known, b \in known, c \in known :
           /\ Role_lt(child_roles, a, b)
           /\ Role_lt(child_roles, b, c)
           /\ a \notin child_roles[c]
    /\ \E a \in Allocated, b \in Allocated :
           /\ a # b
           /\ a \notin Descendants(child_roles, b)
           /\ b \notin Descendants(child_roles, a)

\* C7: once the first Role construction has returned the admin root exists,
\* and every role a thread constructed is a direct child of it from the
\* return of its constructor on.
C7_ChildOfAdminRoot ==
    known # {}
        => /\ admin # None
           /\ \A r \in known : r \in child_roles[admin]

\* Objects whose constructor some thread is still running.
UnderConstruction ==
    ({cur[t].self : t \in Threads} \cup {cur[t].inner : t \in Threads})
        \ {None}

\* C8: in every interleaving of concurrent constructions at most one admin
\* root object is made, the admin root exists once the construction that
\* passed the semaphore has returned, and Role.__admin never refers to an
\* object whose constructor is still running.
C8_AdminRootOnce ==
    /\ Cardinality(roots) <= 1
    /\ gate \in known => (admin # None /\ Cardinality(roots) = 1)
    /\ admin # None => admin \notin UnderConstruction

\* C9: once Roles.__init__ has ended, and after any add_role and remove_role
\* calls, chat_admins, chat_creator and every registered role are children of
\* the registry's admins role and are not children of the default admin
\* root.
C9_RegistryUnderAdmins ==
    HasRegistry
        => \A r \in RegistryRoles_of(reg) \ {reg.admins} :
               /\ r \in child_roles[reg.admins]
               /\ admin # None => r \notin child_roles[admin]

\* C10: add_role raises ValueError for a registered name and then leaves the
\* mapping and the children of admins as they were; for an unregistered name
\* it returns, the name maps to one new role with the given members and
\* children that is a child of admins, and every other entry is as before.
C10_AddRole ==
    last.op = "add_role"
        => IF pre.roles[last.arg.name] # None
           THEN /\ last.res = "ValueError"
                /\ reg.roles = pre.roles
                /\ child_roles[reg.admins] = pre.kids[reg.admins]
           ELSE /\ last.res = "none"
                /\ reg.roles[last.arg.name] = last.self
                /\ chat_ids[last.self] = last.arg.ids
                /\ child_roles[last.self] = last.arg.kids
                /\ last.self \in child_roles[reg.admins]
                /\ \A nm \in Names \ {last.arg.name} :
                       reg.roles[nm] = pre.roles[nm]

C12_Invert ==
    [][last'.op = "invert"
          => /\ last'.res = "none"
             /\ last'.arg \in (1..nRoles') \ {last'.self}
             /\ inverted'[last'.arg]
             /\ chat_ids'[last'.arg] = chat_ids[last'.self]
             /\ child_roles'[last'.arg] = child_roles[last'.self]
             /\ ~inverted'[last'.self]
             /\ chat_ids'[last'.self] = chat_ids[last'.self]
             /\ child_roles'[last'.self] = child_roles[last'.self]]_vars

\* C13: evaluating ~R with no target gives True when an id of the update is
\* a member of R or of a role R dominates, at any depth, and False otherwise
\* (so also when the id is a member only of roles that dominate R, and when
\* R has no children).
C13_InvertedEvaluation ==
    last.op = "filter_inverted"
        => IF \E d \in {last.self} \cup Descendants(child_roles, last.self) :
                  UpdateIds(last.arg) \cap chat_ids[d] # {}
           THEN last.res = "True"
           ELSE last.res = "False"

\* C14: on every reachable (acyclic) role graph equals is reflexive and
\* symmetric, two roles with equal members and no children are equal, and
\* the result of a call is the one the members and the child sets
\* determine, whatever the order the children were given in.
C14_Equals ==
    /\ \A a \in Allocated : Role_equals(Heap, a, a)
    /\ \A a \in Allocated, b \in Allocated :
           a < b
               => LET ab == Role_equals(Heap, a, b)
                  IN  /\ ab <=> Role_equals(Heap, b, a)
                      /\ (/\ chat_ids[a] = chat_ids[b]
                          /\ child_roles[a] = {}
                          /\ child_roles[b] = {})
                             => ab
    /\ last.op = "equals"
           => /\ last.self = last.arg => last.res
              /\ (/\ chat_ids[last.self] = chat_ids[last.arg]
                  /\ child_roles[last.self] = child_roles[last.arg])
                     => last.res

\* C14 witness: equals has returned True for two different roles with the
\* same non-empty members that each have a child, in a state where another
\* role has other members.
C14_Witness ==
    /\ last.op = "equals"
    /\ last.res
    /\ last.self # last.arg
    /\ chat_ids[last.self] # {}
    /\ child_roles[last.self] # {}
    /\ child_roles[last.arg] # {}
    /\ \E c \in known : chat_ids[c] # chat_ids[last.self]

\* The entry the cache of r holds for chat c.
Entry(r, c) == caches[special[r].cache][c]

\* This step is an evaluation of a ChatAdminsRole: the call recorded began
\* at the present time and ends after the time its lookup took.
EvaluatedChatAdmins ==
    /\ last'.op = "ChatAdminsRole.filter"
    /\ last'.arg.at = now
    /\ now' = now + last'.arg.answer.took

\* What C16 says of the evaluation this step is: the bot is asked exactly
\* when there is no entry for the chat or the entry is at least timeout old;
\* a fetch that returns stores the list with the time of the store; an
\* evaluation that does not ask leaves the caches alone and answers from the
\* entry.
FetchesWhenStale ==
    LET r == last'.self
        update == last'.arg.update
        e == Entry(r, update.chat)
        stale == e = <<>> \/ now - e[1] >= special[r].timeout
    IN  /\ last'.arg.lookup # "none" <=> stale
        /\ last'.arg.lookup = "returned"
               => /\ last'.res = Bool(update.user \in last'.arg.answer.admins)
                  /\ caches' = [caches EXCEPT ![special[r].cache][update.chat]
                                     = <<now', last'.arg.answer.admins>>]
        /\ last'.arg.lookup # "returned" => caches' = caches
        /\ last'.arg.lookup = "none"
               => last'.res = Bool(update.user \in e[2])

EvaluatedChatCreator ==
    /\ last'.op = "ChatCreatorRole.filter"
    /\ last'.arg.at = now
    /\ now' = now

C18_LookupFailureAbsorbed ==
    [][(/\ EvaluatedChatAdmins \/ EvaluatedChatCreator
        /\ last'.arg.lookup = "raised")
           => /\ last'.res = "False"
              /\ caches' = caches]_vars

\* C15: copy.deepcopy of a Roles registry returns a registry none of whose
\* roles is an object of the original and that is equal (==) to the
\* original right after the copy.  (Were a copy returned, later changes of
\* either would have to leave the other alone.)
C15_RegistryDeepCopy ==
    last.op = "Roles.deepcopy"
        => /\ last.res = "none"
           /\ last.arg.built = "ok"
           /\ RegistryRoles_of(last.arg) \cap RegistryRoles_of(reg) = {}
           /\ Roles_eq(Heap, last.arg, reg)

\* C19: right after copy.deepcopy of a chat-admin or chat-creator role the
\* copy has the bot and the cache of the original, and on every update,
\* whatever the bot answers, evaluating the copy has the outcomes evaluating
\* the original has.
C19_CopyEvaluatesAlike ==
    (last.op = "deepcopy" /\ special[last.self].cls # "Role")
        => /\ last.res = "none"
           /\ special[last.arg].bot = special[last.self].bot
           /\ special[last.arg].cache = special[last.self].cache
           /\ \A update \in DynUpdates, wa \in AdminsAnswers,
                   wm \in MemberAnswers :
                  Role_call(Heap, last.arg, update, now, wa, wm)
                      = Role_call(Heap, last.self, update, now, wa, wm)


\* ------------------------------------------------------------ C20: locks

\* The locks thread t holds.
LocksHeld(t) ==
    Cardinality({o \in Obj : role_lock[o] = t})
        + (IF admin_lock = t THEN 1 ELSE 0)
        + (IF reg_lock = t THEN 1 ELSE 0)

\* Thread t runs an evaluation; it waits for the bot's answer.
Evaluating(t) == pc[t] \in {"filter", "filter_locked", "lookup"}
LookingUp(t) == pc[t] = "lookup"

\* While a call is in progress some thread can take a step of its call.
NoDeadlock ==
    (\E t \in Threads : pc[t] # "idle")
        => \E t \in Threads : ENABLED (Acquire(t) \/ Proceed(t))

LockDiscipline ==
    \A t \in Threads :
        /\ Evaluating(t) => LocksHeld(t) <= 1
        /\ LookingUp(t) => LocksHeld(t) = 0

\* C20: whatever the interleaving of constructions, add_child_role,
\* remove_child_role, _set_custom_admin, add_role, remove_role and
\* evaluations, some unfinished call can always take a step, an evaluating
\* thread holds at most one lock and none while the bot is asked, and every
\* call a thread started ends (by returning or by raising).
C20_NoDeadlockAndCompletion ==
    /\ [](NoDeadlock /\ LockDiscipline)
    /\ \A t \in Threads : (pc[t] # "idle") ~> (pc[t] = "idle")

\* An evaluation holds the lock of the role whose children it reads while
\* another thread waits for that lock.
C20_Witness ==
    \E t \in Threads, u \in Threads :
        /\ pc[t] = "filter_locked"
        /\ pc[u] \in {"discard_lock", "add_lock"}
        /\ cur[u].self = cur[t].at
        /\ role_lock[cur[t].at] = t


\* --------------------------------------------------------- C21: pairing

\* The one-to-one maps from S onto T.
Bijections(S, T) ==
    {f \in [S -> T] : /\ \A x \in S, y \in S : f[x] = f[y] => x = y
                      /\ \A z \in T : \E x \in S : f[x] = z}

RECURSIVE Paired(_, _, _)
\* a and b have equal members and their children can be paired one-to-one
\* so that paired children are Paired.
Paired(h, a, b) ==
    /\ h.ids[a] = h.ids[b]
    /\ \E f \in Bijections(h.kids[a], h.kids[b]) :
           \A c \in h.kids[a] : Paired(h, c, f[c])

\* C21: a.equals(b) returns True exactly when a and b have equal members and
\* the children of a can be paired one-to-one with the children of b so that
\* paired children are equal in the same sense.
C21_EqualsIsPairing ==
    last.op = "equals" => (last.res <=> Paired(Heap, last.self, last.arg))


\* ------------------------------------------- C22: concurrent add_child_role

CtorReturns(t) == pc[t] = "read" /\ pc'[t] = "idle"

\* C23: in every interleaving of concurrent constructions, when the
\* constructor of a role other than the admin root returns, the admin root
\* exists and the role is among its children, also when the construction
\* overlapped the first-time creation of the admin root by another thread.
C23_ChildOnReturn ==
    [][\A t \in Threads :
           CtorReturns(t)
               => /\ admin' # None
                  /\ cur[t].self \in child_roles'[admin']]_vars


\* ------------------------------------------------ C24: concurrent add_role

\* Thread t runs add_role; its call ends in this step.
InAddRole(t) ==
    cur[t].name \in Names /\ pc[t] \notin {"pop_lock", "pop_locked"}
AddRoleEnds(t) == InAddRole(t) /\ pc'[t] = "idle"

\* The children of admins that add_role put there.
AddedUnderAdmins(g, kids) == kids[g.admins] \ {g.chat_admins, g.chat_creator}

\* C24: when one of two add_role calls that two threads run at the same time
\* with the same name ends, it ends by registering its role or by the
\* name-conflict error, and the name then maps to a child of admins; and once
\* no add_role call is in progress, the children add_role gave to admins are
\* the roles the mapping holds, one for each name.
C24_SameNameAddRole ==
    [][\A t \in Threads :
           AddRoleEnds(t)
               => /\ \A u \in Threads \ {t} :
                         (InAddRole(u) /\ cur[u].name = cur[t].name)
                             => /\ \/ reg'.roles[cur[t].name] = cur[t].self
                                   \/ pc[t] = "contains_locked"
                                /\ reg'.roles[cur[t].name]
                                       \in AddedUnderAdmins(reg', child_roles')
                  /\ (\A u \in Threads \ {t} : ~InAddRole(u))
                         => AddedUnderAdmins(reg', child_roles')
                                = {reg'.roles[nm] : nm \in Names} \ {None}]_vars

====
